---- MODULE Spec2Model ----
(***************************************************************************)
(* Model of cv2pipeline's frame watcher (src/detectors/framewatcher.py)    *)
(* and of the synchronous movie driver (src/demo.py).                      *)
(*                                                                         *)
(* Asynchronous mode: a producer fills a circular FrameBuffer, a caller    *)
(* issues run() / stop(), and each run() starts a lifecycle thread that    *)
(* executes FrameWatcher._watch.  Every statement of _watch that reads or  *)
(* writes state shared with another thread is a step of its own.           *)
(* Synchronous mode: the loop of demo.py, one iteration per step.          *)
(*                                                                         *)
(* Time is an integer number of clock ticks; `now` is the latest reading   *)
(* of the wall clock, and a reading is never earlier than the one before.  *)
(* A frame is identified by the cumulative write count at which the        *)
(* producer stored it.                                                     *)
(***************************************************************************)
EXTENDS Integers, Sequences, FiniteSets, TLC

(* ------------------------------ bounds -------------------------------- *)
BufLen == 3
MaxWrites == 5
MaxThreads == 2
MaxTime == 2
TickSecs == 60
MaxReads == 10
MaxSkip == 3
MaxStep == 1
MaxCalls == 42
MaxRaceWrites == 1
MaxRaceCalls == 1

(* -------------------------- program constants ------------------------- *)
FPS_FRAMES == 20
RaceStart == FPS_FRAMES - 1
HeartbeatSecs == 60

VARIABLES
    (* FrameBuffer *)
    buffer, buf_frame_index, frame_count,
    (* wall clock *)
    now,
    (* FrameWatcher fields *)
    _frame_index, _thread, _running, display_video,
    _prev_timestamp, _fps_counter, _fps_time, _fps,
    (* lifecycle threads: position in _watch and _track_fps, the values     *)
    (* last loaded of self._frame_index (idx), of the clock at lines 77 and *)
    (* 119 (reading) and of self._fps_counter (cnt), and locals             *)
    pc, idx, reading, cnt, time_s, frame_tuple, last_log,
    (* the caller of run() / stop() *)
    cpc, lastCall,
    (* observations of what the watcher did *)
    lastDisp, failKind, heartbeat, cur, lastPass, calls, boundaryFps,
    (* synchronous driver (demo.py) *)
    dpc, reads, exhausted, skip_count, skip_counter, framecount,
    lastframe_time, save_frames, tracker_calls, detection_events, keptAt,
    (* a second FrameWatcher on the same FrameBuffer: its position in      *)
    (* _watch, its _frame_index, its frame_tuple, the frame it last        *)
    (* dispatched                                                          *)
    peer_pc, peer_frame_index, peer_frame_tuple, peer_disp

bufVars == <<buffer, buf_frame_index, frame_count>>
watcherVars == <<_frame_index, _thread, _running, display_video,
                 _prev_timestamp, _fps_counter, _fps_time, _fps>>
fpsVars == <<_fps_counter, _fps_time, _fps>>
threadVars == <<pc, idx, reading, cnt, time_s, frame_tuple, last_log>>
callerVars == <<cpc, lastCall>>
obsVars == <<lastDisp, failKind, heartbeat, cur, lastPass, calls, boundaryFps>>
driverVars == <<dpc, reads, exhausted, skip_count, skip_counter, framecount,
                lastframe_time, save_frames, tracker_calls, detection_events, keptAt>>
peerVars == <<peer_pc, peer_frame_index, peer_frame_tuple, peer_disp>>
vars == <<bufVars, now, watcherVars, threadVars, callerVars, obsVars, driverVars, peerVars>>

Slots == 0 .. (BufLen - 1)
Threads == 1 .. MaxThreads
NoFrame == [ts |-> -1, frame |-> 0]
NoPass == [phase |-> "none", base |-> 0, burst |-> 0, log |-> <<>>, clean |-> TRUE,
           ok |-> TRUE]
NoLastPass == [valid |-> FALSE, base |-> 0, burst |-> 0, log |-> <<>>, clean |-> TRUE,
               ok |-> TRUE, total |-> 0]

(* A lifecycle thread is alive from Thread.start() until _watch returns.   *)
Alive(t) == pc[t] \notin {"new", "done", "failed"}
NoLiveThread == \A t \in Threads : ~Alive(t)

(* datetime.now(): the readings a clock read may return.                   *)
ReadingsAfter(c) == { d \in c .. MaxTime : d <= c + MaxStep }
ClockReadings == ReadingsAfter(now)

(* --------------------------- FPS telemetry ---------------------------- *)
(* FrameWatcher._track_fps.  The FPS value is the exact quotient          *)
(* FPS_FRAMES / time_s, kept as the pair <<numerator, denominator>>;       *)
(* 0.0 is <<0, 1>>.  A zero time_s makes the division raise.               *)
(* A counter that recomputes the value on every call and falls back to   *)
(* 0.0 when no time has passed.                                            *)
TrackFpsEveryCall(counter, fps_time, fps, t) ==
    IF t - fps_time = 0
    THEN [counter |-> (counter + 1) % FPS_FRAMES, time |-> fps_time, fps |-> <<0, 1>>,
          raised |-> FALSE]
    ELSE [counter |-> (counter + 1) % FPS_FRAMES, time |-> t,
          fps |-> <<counter + 1, t - fps_time>>, raised |-> FALSE]

TrackFps(counter, fps_time, fps, t) ==
    IF counter + 1 = FPS_FRAMES
    THEN IF t - fps_time = 0
         THEN [counter |-> counter + 1, time |-> fps_time, fps |-> fps, raised |-> TRUE]
         ELSE [counter |-> 0, time |-> t, fps |-> <<FPS_FRAMES, t - fps_time>>,
               raised |-> FALSE]
    ELSE [counter |-> counter + 1, time |-> fps_time, fps |-> fps, raised |-> FALSE]

(* FrameWatcher.process_frame on the watcher's fields: _track_fps runs    *)
(* first, then the overlay is drawn and _custom_processing (the detector   *)
(* variant) runs.  The FPS fields are updated whether or not the variant   *)
(* raises afterwards; `calls` counts the calls made since construction.    *)
ProcessFrame ==
    LET r == TrackFps(_fps_counter, _fps_time, _fps, now') IN
    /\ _fps_counter' = r.counter
    /\ _fps_time' = r.time
    /\ _fps' = r.fps
    /\ calls' = calls + 1
    /\ boundaryFps' = IF (calls + 1) % FPS_FRAMES = 0 THEN r.fps ELSE boundaryFps

(* The call raises when the division in _track_fps does or when the      *)
(* detector variant (`detectorRaises`) does.                               *)
ProcessFrameRaises(detectorRaises) ==
    detectorRaises \/ TrackFps(_fps_counter, _fps_time, _fps, now').raised

(* ----------------------------- FrameBuffer ---------------------------- *)
(* The producer stores (timestamp, frame) in the slot after the write     *)
(* cursor, moves the cursor there and counts the frame.  Capture           *)
(* timestamps are strictly increasing: the k-th frame carries timestamp k. *)
Write ==
    /\ frame_count < MaxWrites
    /\ LET next == (buf_frame_index + 1) % BufLen IN
       /\ buffer' = [buffer EXCEPT ![next] = [ts |-> frame_count + 1, frame |-> frame_count + 1]]
       /\ buf_frame_index' = next
    /\ frame_count' = frame_count + 1
    /\ cur' = IF cur.phase = "pass" THEN [cur EXCEPT !.clean = FALSE] ELSE cur
    /\ UNCHANGED <<now, watcherVars, threadVars, callerVars, driverVars, peerVars>>
    /\ UNCHANGED <<lastDisp, failKind, heartbeat, lastPass, calls, boundaryFps>>


(* ------------------------------- caller ------------------------------- *)
(* FrameWatcher.run: a new Thread on _watch, _running = True, start().     *)
(* The new thread takes the first place no live thread holds.              *)
Run ==
    /\ cpc = "idle"
    /\ \E t \in Threads :
        /\ ~Alive(t)
        /\ \A u \in Threads : u < t => Alive(u)
        /\ _thread' = t
        /\ pc' = [pc EXCEPT ![t] = "start"]
        /\ failKind' = [failKind EXCEPT ![t] = "none"]
    /\ _running' = TRUE
    /\ lastCall' = "run"
    /\ cur' = NoPass
    /\ UNCHANGED <<bufVars, now, _frame_index, display_video, _prev_timestamp, fpsVars>>
    /\ UNCHANGED <<frame_tuple, idx, last_log, reading, cnt, time_s, cpc, driverVars, peerVars>>
    /\ UNCHANGED <<lastDisp, heartbeat, lastPass, calls, boundaryFps>>

(* FrameWatcher.stop, first statement: _running = False.                   *)
StopBegin ==
    /\ cpc = "idle"
    /\ _running' = FALSE
    /\ cpc' = "joining"
    /\ lastCall' = "stop_called"
    /\ UNCHANGED <<bufVars, now, _frame_index, _thread, display_video, _prev_timestamp,
                   fpsVars, threadVars, obsVars, driverVars, peerVars>>

(* A stop() that returns as soon as the flag is cleared. *)
StopJoinNoWait ==
    /\ cpc = "joining"
    /\ cpc' = "idle"
    /\ lastCall' = IF _thread = 0 THEN "stop_raised" ELSE "stop_returned"
    /\ UNCHANGED <<bufVars, now, watcherVars, threadVars, obsVars, driverVars, peerVars>>

(* FrameWatcher.stop, second statement: self._thread.join().  With no     *)
(* thread object (_thread is None) the attribute access raises; otherwise  *)
(* the call blocks until the thread has exited, then stop() returns.       *)
StopJoin ==
    /\ cpc = "joining"
    /\ \/ /\ _thread = 0
          /\ lastCall' = "stop_raised"
       \/ /\ _thread # 0
          /\ ~Alive(_thread)
          /\ lastCall' = "stop_returned"
    /\ cpc' = "idle"
    /\ UNCHANGED <<bufVars, now, watcherVars, threadVars, obsVars, driverVars, peerVars>>

(* ------------------------- FrameWatcher._watch ------------------------ *)
(* Lines 76-77, the call: the thread's first statements up to the return  *)
(* of datetime.now() of line 77.  The reading is on the thread's stack;    *)
(* other threads run before it is stored.                                  *)
WatchStart(t) ==
    /\ pc[t] = "start"
    /\ now' \in ClockReadings
    /\ reading' = [reading EXCEPT ![t] = now']
    /\ pc' = [pc EXCEPT ![t] = "start_store"]
    /\ UNCHANGED <<bufVars, watcherVars, frame_tuple, idx, cnt, time_s, last_log>>
    /\ UNCHANGED <<callerVars, obsVars, driverVars, peerVars>>

(* Line 77, the store: _prev_timestamp becomes the reading taken.          *)
WatchStamp(t) ==
    /\ pc[t] = "start_store"
    /\ _prev_timestamp' = reading[t]
    /\ reading' = [reading EXCEPT ![t] = 0]
    /\ pc' = [pc EXCEPT ![t] = "start_log"]
    /\ UNCHANGED <<bufVars, now, _frame_index, _thread, _running, display_video, fpsVars>>
    /\ UNCHANGED <<frame_tuple, idx, cnt, time_s, last_log>>
    /\ UNCHANGED <<callerVars, obsVars, driverVars, peerVars>>

(* Line 78: the clock is read again and the reading kept in the local      *)
(* last_log.                                                               *)
WatchMark(t) ==
    /\ pc[t] = "start_log"
    /\ now' \in ClockReadings
    /\ last_log' = [last_log EXCEPT ![t] = now']
    /\ pc' = [pc EXCEPT ![t] = "outer"]
    /\ UNCHANGED <<bufVars, watcherVars, frame_tuple, idx, reading, cnt, time_s>>
    /\ UNCHANGED <<callerVars, obsVars, driverVars, peerVars>>

(* Line 80: while self._running.  A false flag ends _watch normally, and *)
(* its locals are gone.  `heartbeat` holds what the step before emitted.    *)
WatchOuter(t) ==
    /\ pc[t] = "outer"
    /\ IF _running
       THEN /\ pc' = [pc EXCEPT ![t] = "inner"]
            /\ UNCHANGED <<frame_tuple, idx, last_log, reading, cnt, time_s>>
       ELSE /\ pc' = [pc EXCEPT ![t] = "done"]
            /\ frame_tuple' = [frame_tuple EXCEPT ![t] = NoFrame]
            /\ last_log' = [last_log EXCEPT ![t] = 0]
            /\ idx' = [idx EXCEPT ![t] = 0]
    /\ heartbeat' = -1
    /\ UNCHANGED <<reading, cnt, time_s>>
    /\ UNCHANGED <<bufVars, now, watcherVars, callerVars, driverVars, peerVars>>
    /\ UNCHANGED <<lastDisp, failKind, cur, lastPass, calls, boundaryFps>>

(* Line 81, left operand, first half: self._frame_index is loaded.  The  *)
(* write cursor is read after it, in a step of its own.                    *)
LoadCursor(t) ==
    /\ pc[t] = "inner"
    /\ idx' = [idx EXCEPT ![t] = _frame_index]
    /\ pc' = [pc EXCEPT ![t] = "inner_cmp"]
    /\ UNCHANGED <<bufVars, now, watcherVars, frame_tuple, last_log, reading, cnt, time_s>>
    /\ UNCHANGED <<callerVars, obsVars, driverVars, peerVars>>

(* A check that also compares the write count with the count at the     *)
(* last synchronized check, and so notices a whole lap.                    *)
CheckCursorByCount(t) ==
    /\ pc[t] = "inner_cmp"
    /\ LET waiting == frame_count - cur.base - Len(cur.log) IN
       IF idx[t] # buf_frame_index \/ (cur.phase = "synced" /\ frame_count # cur.base)
       THEN /\ pc' = [pc EXCEPT ![t] = "inner_run"]
            /\ cur' = IF cur.phase = "none"
                      THEN cur
                      ELSE [cur EXCEPT !.phase = "pass",
                                       !.burst = IF cur.phase = "synced"
                                                 THEN frame_count - cur.base ELSE @,
                                       !.ok = @ /\ waiting < BufLen]
            /\ UNCHANGED lastPass
       ELSE /\ pc' = [pc EXCEPT ![t] = "sleep"]
            /\ lastPass' = IF cur.phase = "none"
                           THEN lastPass
                           ELSE [valid |-> TRUE, base |-> cur.base,
                                 burst |-> IF cur.phase = "synced"
                                           THEN frame_count - cur.base ELSE cur.burst,
                                 log |-> cur.log, clean |-> cur.clean,
                                 ok |-> cur.ok /\ waiting < BufLen,
                                 total |-> frame_count - cur.base]
            /\ cur' = [phase |-> "synced", base |-> frame_count, burst |-> 0,
                       log |-> <<>>, clean |-> TRUE, ok |-> TRUE]
    /\ UNCHANGED <<bufVars, now, watcherVars, frame_tuple, idx, last_log, reading, cnt, time_s>>
    /\ UNCHANGED <<callerVars, driverVars, peerVars>>
    /\ UNCHANGED <<lastDisp, failKind, heartbeat, calls, boundaryFps>>

(* Line 81, left operand, second half: the loaded value of the local      *)
(* cursor against the write cursor, read now.  A check that finds them     *)
(* equal closes the catch-up pass: `lastPass` keeps what the pass did      *)
(* until the thread's next step, and `cur` restarts at the current write   *)
(* count (base).  Of the pass under way `cur` records the writes found at  *)
(* its first check (burst), the frames dispatched (log), whether no write  *)
(* fell into it (clean), and whether every check found fewer than BufLen   *)
(* writes waiting, written since base and not yet dispatched (ok).         *)
CheckCursor(t) ==
    /\ pc[t] = "inner_cmp"
    /\ LET waiting == frame_count - cur.base - Len(cur.log) IN
       IF idx[t] # buf_frame_index
       THEN /\ pc' = [pc EXCEPT ![t] = "inner_run"]
            /\ cur' = IF cur.phase = "none"
                      THEN cur
                      ELSE [cur EXCEPT !.phase = "pass",
                                       !.burst = IF cur.phase = "synced"
                                                 THEN frame_count - cur.base ELSE @,
                                       !.ok = @ /\ waiting < BufLen]
            /\ UNCHANGED lastPass
       ELSE /\ pc' = [pc EXCEPT ![t] = "sleep"]
            /\ lastPass' = IF cur.phase = "none"
                           THEN lastPass
                           ELSE [valid |-> TRUE, base |-> cur.base,
                                 burst |-> IF cur.phase = "synced"
                                           THEN frame_count - cur.base ELSE cur.burst,
                                 log |-> cur.log, clean |-> cur.clean,
                                 ok |-> cur.ok /\ waiting < BufLen,
                                 total |-> frame_count - cur.base]
            /\ cur' = [phase |-> "synced", base |-> frame_count, burst |-> 0,
                       log |-> <<>>, clean |-> TRUE, ok |-> TRUE]
    /\ UNCHANGED <<bufVars, now, watcherVars, frame_tuple, idx, last_log, reading, cnt, time_s>>
    /\ UNCHANGED <<callerVars, driverVars, peerVars>>
    /\ UNCHANGED <<lastDisp, failKind, heartbeat, calls, boundaryFps>>

(* An inner loop that does not look at the running flag. *)
CheckRunningIgnored(t) ==
    /\ pc[t] = "inner_run"
    /\ pc' = [pc EXCEPT ![t] = "advance"]
    /\ UNCHANGED <<bufVars, now, watcherVars, frame_tuple, idx, last_log, reading, cnt, time_s>>
    /\ UNCHANGED <<callerVars, obsVars, driverVars, peerVars>>

(* Line 81, right operand (evaluated only when the cursors differ).        *)
CheckRunning(t) ==
    /\ pc[t] = "inner_run"
    /\ pc' = [pc EXCEPT ![t] = IF _running THEN "advance" ELSE "sleep"]
    /\ UNCHANGED <<bufVars, now, watcherVars, frame_tuple, idx, last_log, reading, cnt, time_s>>
    /\ UNCHANGED <<callerVars, obsVars, driverVars, peerVars>>

(* Line 82, right-hand side: self._frame_index is loaded; buffer_len is   *)
(* evaluated and the result stored in a later step.                        *)
AdvanceLoad(t) ==
    /\ pc[t] = "advance"
    /\ idx' = [idx EXCEPT ![t] = _frame_index]
    /\ pc' = [pc EXCEPT ![t] = "advance_store"]
    /\ UNCHANGED <<bufVars, now, watcherVars, frame_tuple, last_log, reading, cnt, time_s>>
    /\ UNCHANGED <<callerVars, obsVars, driverVars, peerVars>>

(* A cursor that steps two slots on. *)
AdvanceTwo(t) ==
    /\ pc[t] = "advance_store"
    /\ _frame_index' = (idx[t] + 2) % BufLen
    /\ pc' = [pc EXCEPT ![t] = "read"]
    /\ UNCHANGED <<bufVars, now, _thread, _running, display_video, _prev_timestamp, fpsVars>>
    /\ UNCHANGED <<frame_tuple, idx, last_log, reading, cnt, time_s, callerVars, obsVars, driverVars, peerVars>>

(* A cursor that steps one slot back instead of one slot on. *)
AdvanceBackward(t) ==
    /\ pc[t] = "advance_store"
    /\ _frame_index' = (idx[t] + BufLen - 1) % BufLen
    /\ pc' = [pc EXCEPT ![t] = "read"]
    /\ UNCHANGED <<bufVars, now, _thread, _running, display_video, _prev_timestamp, fpsVars>>
    /\ UNCHANGED <<frame_tuple, idx, last_log, reading, cnt, time_s, callerVars, obsVars, driverVars, peerVars>>

(* A cursor that steps on without the modulo. *)
AdvanceNoWrap(t) ==
    /\ pc[t] = "advance_store"
    /\ _frame_index' = idx[t] + 1
    /\ pc' = [pc EXCEPT ![t] = "read"]
    /\ UNCHANGED <<bufVars, now, _thread, _running, display_video, _prev_timestamp, fpsVars>>
    /\ UNCHANGED <<frame_tuple, idx, last_log, reading, cnt, time_s, callerVars, obsVars, driverVars, peerVars>>

(* Line 82, the store: the local cursor becomes the loaded value plus    *)
(* one, modulo the capacity.                                               *)
Advance(t) ==
    /\ pc[t] = "advance_store"
    /\ _frame_index' = (idx[t] + 1) % BufLen
    /\ pc' = [pc EXCEPT ![t] = "read"]
    /\ UNCHANGED <<bufVars, now, _thread, _running, display_video, _prev_timestamp, fpsVars>>
    /\ UNCHANGED <<frame_tuple, idx, last_log, reading, cnt, time_s, callerVars, obsVars, driverVars, peerVars>>

(* Line 84, the subscript operand: self._frame_index is loaded; the slot *)
(* is read in a later step.                                                *)
ReadLoad(t) ==
    /\ pc[t] = "read"
    /\ idx' = [idx EXCEPT ![t] = _frame_index]
    /\ pc' = [pc EXCEPT ![t] = "read_slot"]
    /\ UNCHANGED <<bufVars, now, watcherVars, frame_tuple, last_log, reading, cnt, time_s>>
    /\ UNCHANGED <<callerVars, obsVars, driverVars, peerVars>>

(* A read of the newest slot instead of the slot under the local cursor. *)
ReadSlotAtWriteCursor(t) ==
    /\ pc[t] = "read_slot"
    /\ frame_tuple' = [frame_tuple EXCEPT ![t] = buffer[buf_frame_index]]
    /\ pc' = [pc EXCEPT ![t] = IF buffer[buf_frame_index] = NoFrame THEN "inner" ELSE "process"]
    /\ UNCHANGED <<bufVars, now, watcherVars, idx, last_log, reading, cnt, time_s>>
    /\ UNCHANGED <<callerVars, obsVars, driverVars, peerVars>>

(* A read without the test for an empty slot. *)
ReadSlotNoEmptyTest(t) ==
    /\ pc[t] = "read_slot"
    /\ frame_tuple' = [frame_tuple EXCEPT ![t] = buffer[idx[t]]]
    /\ pc' = [pc EXCEPT ![t] = "process"]
    /\ UNCHANGED <<bufVars, now, watcherVars, idx, last_log, reading, cnt, time_s>>
    /\ UNCHANGED <<callerVars, obsVars, driverVars, peerVars>>

(* Lines 84-87: the list is subscripted with the loaded cursor; an empty  *)
(* slot goes back to the check.                                            *)
ReadSlot(t) ==
    /\ pc[t] = "read_slot"
    /\ frame_tuple' = [frame_tuple EXCEPT ![t] = buffer[idx[t]]]
    /\ pc' = [pc EXCEPT ![t] = IF buffer[idx[t]] = NoFrame THEN "inner" ELSE "process"]
    /\ UNCHANGED <<bufVars, now, watcherVars, idx, last_log, reading, cnt, time_s>>
    /\ UNCHANGED <<callerVars, obsVars, driverVars, peerVars>>

(* Lines 90, 126-130 and 117 (load): process_frame is entered, the frame *)
(* copied, and _track_fps loads self._fps_counter for its increment.       *)
TrackLoad(t) ==
    /\ pc[t] = "process"
    /\ cnt' = [cnt EXCEPT ![t] = _fps_counter]
    /\ pc' = [pc EXCEPT ![t] = "fps_store"]
    /\ UNCHANGED <<bufVars, now, watcherVars, frame_tuple, idx, reading, time_s, last_log>>
    /\ UNCHANGED <<callerVars, obsVars, driverVars, peerVars>>

(* The positions of a lifecycle thread inside _track_fps, after the load  *)
(* of line 117.                                                            *)
TrackPcs == {"fps_store", "fps_test", "fps_clock", "fps_elapsed", "fps_divide",
             "fps_time", "fps_reset"}

(* The thread leaves _watch through the handler of lines 102-104 with an  *)
(* error of the per-frame call: the call made counts as a dispatch, and    *)
(* the thread's locals are gone.                                           *)
CallRaises(t) ==
    /\ pc' = [pc EXCEPT ![t] = "failed"]
    /\ failKind' = [failKind EXCEPT ![t] = "process"]
    /\ calls' = calls + 1
    /\ lastDisp' = frame_tuple[t].frame
    /\ cur' = [cur EXCEPT !.log = Append(cur.log, frame_tuple[t].frame)]
    /\ frame_tuple' = [frame_tuple EXCEPT ![t] = NoFrame]
    /\ last_log' = [last_log EXCEPT ![t] = 0]
    /\ idx' = [idx EXCEPT ![t] = 0]
    /\ reading' = [reading EXCEPT ![t] = 0]
    /\ time_s' = [time_s EXCEPT ![t] = 0]

(* FrameWatcher._track_fps as a lifecycle thread executes it, one access  *)
(* of a field of the watcher (or of the clock) at a time:                  *)
(*   fps_store    line 117, the store of the loaded counter plus one       *)
(*   fps_test     line 118, the counter is read again and compared         *)
(*   fps_clock    line 119, new_time = datetime.now()                      *)
(*   fps_elapsed  line 120, time_s from new_time and self._fps_time        *)
(*   fps_divide   line 121, the division (it raises on a zero time_s) and  *)
(*                the store of self._fps                                   *)
(*   fps_time     line 122, the store of self._fps_time                    *)
(*   fps_reset    line 123, the store of self._fps_counter = 0             *)
(* `boundaryFps` follows the value computed at line 121.                   *)
_track_fps(t) ==
    /\ pc[t] \in TrackPcs
    /\ CASE pc[t] = "fps_store" ->
              /\ _fps_counter' = cnt[t] + 1
              /\ cnt' = [cnt EXCEPT ![t] = 0]
              /\ pc' = [pc EXCEPT ![t] = "fps_test"]
              /\ UNCHANGED <<now, _fps_time, _fps, reading, time_s, frame_tuple, idx, last_log>>
              /\ UNCHANGED obsVars
         [] pc[t] = "fps_test" ->
              /\ pc' = [pc EXCEPT ![t] = IF _fps_counter = FPS_FRAMES
                                          THEN "fps_clock" ELSE "call"]
              /\ UNCHANGED <<now, fpsVars, reading, cnt, time_s, frame_tuple, idx, last_log>>
              /\ UNCHANGED obsVars
         [] pc[t] = "fps_clock" ->
              /\ now' \in ClockReadings
              /\ reading' = [reading EXCEPT ![t] = now']
              /\ pc' = [pc EXCEPT ![t] = "fps_elapsed"]
              /\ UNCHANGED <<fpsVars, cnt, time_s, frame_tuple, idx, last_log>>
              /\ UNCHANGED obsVars
         [] pc[t] = "fps_elapsed" ->
              /\ time_s' = [time_s EXCEPT ![t] = reading[t] - _fps_time]
              /\ pc' = [pc EXCEPT ![t] = "fps_divide"]
              /\ UNCHANGED <<now, fpsVars, reading, cnt, frame_tuple, idx, last_log>>
              /\ UNCHANGED obsVars
         [] pc[t] = "fps_divide" ->
              IF time_s[t] = 0
              THEN /\ CallRaises(t)
                   /\ UNCHANGED <<now, fpsVars, cnt, heartbeat, lastPass, boundaryFps>>
              ELSE /\ _fps' = <<FPS_FRAMES, time_s[t]>>
                   /\ boundaryFps' = _fps'
                   /\ time_s' = [time_s EXCEPT ![t] = 0]
                   /\ pc' = [pc EXCEPT ![t] = "fps_time"]
                   /\ UNCHANGED <<now, _fps_counter, _fps_time, reading, cnt>>
                   /\ UNCHANGED <<frame_tuple, idx, last_log>>
                   /\ UNCHANGED <<lastDisp, failKind, heartbeat, cur, lastPass, calls>>
         [] pc[t] = "fps_time" ->
              /\ _fps_time' = reading[t]
              /\ reading' = [reading EXCEPT ![t] = 0]
              /\ pc' = [pc EXCEPT ![t] = "fps_reset"]
              /\ UNCHANGED <<now, _fps_counter, _fps, cnt, time_s, frame_tuple, idx, last_log>>
              /\ UNCHANGED obsVars
         [] pc[t] = "fps_reset" ->
              /\ _fps_counter' = 0
              /\ pc' = [pc EXCEPT ![t] = "call"]
              /\ UNCHANGED <<now, _fps_time, _fps, reading, cnt, time_s, frame_tuple, idx, last_log>>
              /\ UNCHANGED obsVars
    /\ UNCHANGED <<bufVars, _frame_index, _thread, _running, display_video, _prev_timestamp>>
    /\ UNCHANGED <<callerVars, driverVars, peerVars>>

(* A loop that swallows the error of the per-frame call and goes on. *)
DispatchSwallow(t) ==
    /\ pc[t] = "call"
    /\ now' \in ClockReadings
    /\ calls' = calls + 1
    /\ lastDisp' = frame_tuple[t].frame
    /\ cur' = [cur EXCEPT !.log = Append(cur.log, frame_tuple[t].frame)]
    /\ \E detectorRaises \in BOOLEAN :
         IF detectorRaises
         THEN /\ pc' = [pc EXCEPT ![t] = "inner"]
              /\ failKind' = [failKind EXCEPT ![t] = "process"]
         ELSE /\ pc' = [pc EXCEPT ![t] = "stamp"]
              /\ UNCHANGED failKind
    /\ UNCHANGED <<bufVars, watcherVars, frame_tuple, idx, reading, cnt, time_s, last_log>>
    /\ UNCHANGED <<callerVars, driverVars, peerVars, heartbeat, lastPass, boundaryFps>>

(* Lines 90 and 124-152: _track_fps returns self._fps and the rest of     *)
(* process_frame runs: the overlay is drawn on the copy and the detector   *)
(* variant (_custom_processing) is called; the call takes time.  If the    *)
(* variant raises, the handler of lines 102-104 logs and _watch returns.   *)
Dispatch(t) ==
    /\ pc[t] = "call"
    /\ now' \in ClockReadings
    /\ \E detectorRaises \in BOOLEAN :
         IF detectorRaises
         THEN CallRaises(t)
         ELSE /\ pc' = [pc EXCEPT ![t] = "stamp"]
              /\ calls' = calls + 1
              /\ lastDisp' = frame_tuple[t].frame
              /\ cur' = [cur EXCEPT !.log = Append(cur.log, frame_tuple[t].frame)]
              /\ UNCHANGED <<failKind, frame_tuple, idx, reading, time_s, last_log>>
    /\ UNCHANGED <<bufVars, watcherVars, cnt>>
    /\ UNCHANGED <<callerVars, driverVars, peerVars, heartbeat, lastPass, boundaryFps>>

(* Lines 91-92: the call has returned; _prev_timestamp becomes the        *)
(* frame's timestamp, then display_video is tested.                        *)
StampPrev(t) ==
    /\ pc[t] = "stamp"
    /\ _prev_timestamp' = frame_tuple[t].ts
    /\ pc' = [pc EXCEPT ![t] = IF display_video THEN "display" ELSE "inner"]
    /\ UNCHANGED <<bufVars, now, _frame_index, _thread, _running, display_video, fpsVars>>
    /\ UNCHANGED <<frame_tuple, idx, reading, cnt, time_s, last_log>>
    /\ UNCHANGED <<callerVars, obsVars, driverVars, peerVars>>

(* Line 93: _display_video (cv2.imshow, cv2.waitKey) inside the same try: *)
(* an error it raises reaches the handler of lines 102-104 as well.        *)
Display(t) ==
    /\ pc[t] = "display"
    /\ \E displayRaises \in BOOLEAN :
         IF displayRaises
         THEN /\ pc' = [pc EXCEPT ![t] = "failed"]
              /\ failKind' = [failKind EXCEPT ![t] = "display"]
              /\ frame_tuple' = [frame_tuple EXCEPT ![t] = NoFrame]
              /\ last_log' = [last_log EXCEPT ![t] = 0]
              /\ idx' = [idx EXCEPT ![t] = 0]
         ELSE /\ pc' = [pc EXCEPT ![t] = "inner"]
              /\ UNCHANGED <<failKind, frame_tuple, idx, last_log>>
    /\ UNCHANGED <<bufVars, now, watcherVars, reading, cnt, time_s>>
    /\ UNCHANGED <<callerVars, driverVars, peerVars>>
    /\ UNCHANGED <<lastDisp, heartbeat, cur, lastPass, calls, boundaryFps>>

(* Lines 96-98: the 5 ms sleep, then the clock is read and compared with *)
(* last_log: more than 60 s since the last heartbeat make one due.         *)
SleepHeartbeat(t) ==
    /\ pc[t] = "sleep"
    /\ now' \in ClockReadings
    /\ pc' = [pc EXCEPT ![t] = IF (now' - last_log[t]) * TickSecs > HeartbeatSecs
                                THEN "hb_log" ELSE "outer"]
    /\ lastPass' = NoLastPass
    /\ UNCHANGED <<bufVars, watcherVars, frame_tuple, idx, reading, cnt, time_s, last_log>>
    /\ UNCHANGED <<callerVars, driverVars, peerVars>>
    /\ UNCHANGED <<lastDisp, failKind, heartbeat, cur, calls, boundaryFps>>

(* Line 99: the heartbeat is logged; it carries the buffer's frame_count  *)
(* as read now.                                                            *)
HeartbeatLog(t) ==
    /\ pc[t] = "hb_log"
    /\ heartbeat' = frame_count
    /\ pc' = [pc EXCEPT ![t] = "hb_mark"]
    /\ UNCHANGED <<bufVars, now, watcherVars, frame_tuple, idx, reading, cnt, time_s, last_log>>
    /\ UNCHANGED <<callerVars, driverVars, peerVars>>
    /\ UNCHANGED <<lastDisp, failKind, cur, lastPass, calls, boundaryFps>>

(* Line 100: the clock is read again and the reading kept in last_log.    *)
HeartbeatMark(t) ==
    /\ pc[t] = "hb_mark"
    /\ now' \in ClockReadings
    /\ last_log' = [last_log EXCEPT ![t] = now']
    /\ pc' = [pc EXCEPT ![t] = "outer"]
    /\ UNCHANGED <<bufVars, watcherVars, frame_tuple, idx, reading, cnt, time_s>>
    /\ UNCHANGED <<callerVars, obsVars, driverVars, peerVars>>

WatchStep(t) ==
    \/ WatchStart(t)
    \/ WatchStamp(t)
    \/ WatchMark(t)
    \/ WatchOuter(t)
    \/ LoadCursor(t)
    \/ CheckCursor(t)
    \/ CheckRunning(t)
    \/ AdvanceLoad(t)
    \/ Advance(t)
    \/ ReadLoad(t)
    \/ ReadSlot(t)
    \/ TrackLoad(t)
    \/ _track_fps(t)
    \/ Dispatch(t)
    \/ StampPrev(t)
    \/ Display(t)
    \/ SleepHeartbeat(t)
    \/ HeartbeatLog(t)
    \/ HeartbeatMark(t)

(* ------------------------------ driver off ---------------------------- *)
DriverOff ==
    /\ dpc = "off"
    /\ reads = 0
    /\ exhausted = FALSE
    /\ skip_count = 0
    /\ skip_counter = 0
    /\ framecount = 0
    /\ lastframe_time = 0
    /\ save_frames = FALSE
    /\ tracker_calls = 0
    /\ detection_events = {}
    /\ keptAt = <<>>

(* No second watcher has been started. *)
PeerOff ==
    /\ peer_pc = "new"
    /\ peer_frame_index = 0
    /\ peer_frame_tuple = NoFrame
    /\ peer_disp = 0

(* The state after FrameWatcher.__init__ over an idle FrameBuffer.  The   *)
(* constructor reads the clock twice, at line 41 for _prev_timestamp and   *)
(* at line 44 for _fps_time; time 0 is an instant not later than the       *)
(* first of the two readings.                                              *)
InitWatcher ==
    /\ _frame_index = 0
    /\ _thread = 0
    /\ _running = FALSE
    /\ _prev_timestamp \in ReadingsAfter(0)
    /\ _fps_counter = 0
    /\ _fps_time \in ReadingsAfter(_prev_timestamp)
    /\ now = _fps_time
    /\ _fps = <<0, 1>>
    /\ pc = [t \in Threads |-> "new"]
    /\ frame_tuple = [t \in Threads |-> NoFrame]
    /\ idx = [t \in Threads |-> 0]
    /\ reading = [t \in Threads |-> 0]
    /\ cnt = [t \in Threads |-> 0]
    /\ time_s = [t \in Threads |-> 0]
    /\ last_log = [t \in Threads |-> 0]
    /\ cpc = "idle"
    /\ lastCall = "none"
    /\ lastDisp = 0
    /\ failKind = [t \in Threads |-> "none"]
    /\ heartbeat = -1
    /\ cur = NoPass
    /\ lastPass = NoLastPass
    /\ calls = 0
    /\ boundaryFps = <<0, 1>>

InitBuffer ==
    /\ buffer = [i \in Slots |-> NoFrame]
    /\ buf_frame_index = BufLen - 1
    /\ frame_count = 0

Init ==
    /\ InitBuffer
    /\ display_video \in BOOLEAN
    /\ InitWatcher
    /\ DriverOff
    /\ PeerOff

(* One producer, one caller and the watcher's lifecycle thread.  The      *)
(* caller calls run() only when no lifecycle thread of the watcher is      *)
(* alive (before the first run(), after a stop() that returned, or after   *)
(* the loop ended on an error), so at most one thread executes _watch.     *)
Next ==
    \/ Write
    \/ (NoLiveThread /\ Run)
    \/ StopBegin
    \/ StopJoin
    \/ \E t \in Threads : WatchStep(t)

Spec == Init /\ [][Next]_vars

(* The same system under a fair scheduler: a lifecycle thread that can    *)
(* take a step of _watch eventually takes one (every call it makes         *)
(* returns or raises), and a join() whose thread has exited returns.  The  *)
(* producer and the caller's decisions to call are under no obligation.    *)
SpecFair ==
    /\ Init
    /\ [][Next]_vars
    /\ \A t \in Threads : WF_vars(WatchStep(t))
    /\ WF_vars(StopJoin)

(* The caller calls process_frame itself, as the synchronous driver does, *)
(* on a watcher it has not started yet.                                    *)
DirectCall ==
    /\ lastCall = "none"
    /\ cpc = "idle"
    /\ calls < RaceStart
    /\ now' \in ClockReadings
    /\ ProcessFrame
    /\ UNCHANGED <<bufVars, _frame_index, _thread, _running, display_video, _prev_timestamp>>
    /\ UNCHANGED <<threadVars, callerVars, driverVars, peerVars>>
    /\ UNCHANGED <<lastDisp, failKind, heartbeat, cur, lastPass>>

(* The same processes with a caller that calls run() and stop() in any   *)
(* order, as FrameWatcher.run allows: run() has no test of _running or of  *)
(* _thread, so each call starts one more thread on _watch.                 *)
(* Two threads on one cursor can dispatch the same slot again and again,  *)
(* so the producer and the number of calls of process_frame are capped.    *)
(* The caller's first run() or stop() comes on a fresh watcher or after    *)
(* RaceStart direct calls, one short of the end of an FPS window, and the  *)
(* threads then enter at most MaxRaceCalls + 1 per-frame calls.            *)
RaceCallsLeft ==
    \/ calls < MaxRaceCalls
    \/ (RaceStart <= calls /\ calls < RaceStart + MaxRaceCalls)

RaceStarts == lastCall = "none" => calls \in {0, RaceStart}

NextAnyCalls ==
    \/ (frame_count < MaxRaceWrites /\ Write)
    \/ DirectCall
    \/ (RaceStarts /\ Run)
    \/ (RaceStarts /\ StopBegin)
    \/ StopJoin
    \/ \E t \in Threads : (pc[t] = "process" => RaceCallsLeft) /\ WatchStep(t)

SpecAnyCalls == Init /\ [][NextAnyCalls]_vars

(* ---------------- a second watcher on the same buffer ---------------- *)
(* A second FrameWatcher instance built over the same FrameBuffer.  The   *)
(* two instances share the buffer object and nothing else; of the second   *)
(* one the model keeps the cursor, the position in _watch, the tuple read  *)
(* and the frame last dispatched.  Its run() is not followed by a stop()   *)
(* and its per-frame calls return.                                         *)
PeerRun ==
    /\ peer_pc = "new"
    /\ peer_pc' = "inner"
    /\ UNCHANGED <<peer_frame_index, peer_frame_tuple, peer_disp>>
    /\ UNCHANGED <<bufVars, now, watcherVars, threadVars, callerVars, obsVars, driverVars>>

(* Line 81 in the second watcher; with equal cursors it sleeps and tests  *)
(* again.                                                                  *)
PeerCheckCursor ==
    /\ peer_pc = "inner"
    /\ peer_pc' = IF peer_frame_index # buf_frame_index THEN "advance" ELSE "inner"
    /\ UNCHANGED <<peer_frame_index, peer_frame_tuple, peer_disp>>
    /\ UNCHANGED <<bufVars, now, watcherVars, threadVars, callerVars, obsVars, driverVars>>

(* A second watcher that advances the first watcher's cursor with its own. *)
PeerAdvanceShared ==
    /\ peer_pc = "advance"
    /\ peer_frame_index' = (peer_frame_index + 1) % BufLen
    /\ _frame_index' = (_frame_index + 1) % BufLen
    /\ peer_pc' = "read"
    /\ UNCHANGED <<peer_frame_tuple, peer_disp>>
    /\ UNCHANGED <<bufVars, now, _thread, _running, display_video, _prev_timestamp, fpsVars>>
    /\ UNCHANGED <<threadVars, callerVars, obsVars, driverVars>>

(* Line 82 in the second watcher. *)
PeerAdvance ==
    /\ peer_pc = "advance"
    /\ peer_frame_index' = (peer_frame_index + 1) % BufLen
    /\ peer_pc' = "read"
    /\ UNCHANGED <<peer_frame_tuple, peer_disp>>
    /\ UNCHANGED <<bufVars, now, watcherVars, threadVars, callerVars, obsVars, driverVars>>

(* Lines 84-87 in the second watcher. *)
PeerReadSlot ==
    /\ peer_pc = "read"
    /\ peer_frame_tuple' = buffer[peer_frame_index]
    /\ peer_pc' = IF buffer[peer_frame_index] = NoFrame THEN "inner" ELSE "process"
    /\ UNCHANGED <<peer_frame_index, peer_disp>>
    /\ UNCHANGED <<bufVars, now, watcherVars, threadVars, callerVars, obsVars, driverVars>>

(* Lines 89-91 in the second watcher: process_frame works on a copy of    *)
(* the frame (np.array, line 128) and on the instance's own fields.        *)
PeerDispatch ==
    /\ peer_pc = "process"
    /\ peer_disp' = peer_frame_tuple.frame
    /\ peer_pc' = "inner"
    /\ UNCHANGED <<peer_frame_index, peer_frame_tuple>>
    /\ UNCHANGED <<bufVars, now, watcherVars, threadVars, callerVars, obsVars, driverVars>>

PeerStep ==
    \/ PeerRun
    \/ PeerCheckCursor
    \/ PeerAdvance
    \/ PeerReadSlot
    \/ PeerDispatch

(* The producer and two watchers on its buffer.  The first watcher is     *)
(* started once and not stopped, and no time passes on the clock: neither  *)
(* the caller nor the clock bears on what one watcher does to the other.   *)
NextPeers ==
    \/ Write
    \/ (_thread = 0 /\ Run)
    \/ \E t \in Threads : (now' = now /\ WatchStep(t))
    \/ PeerStep

SpecPeers == Init /\ [][NextPeers]_vars

(* ===================== synchronous driver (demo.py) ==================== *)
(* The state at the top of the loop of demo.py: the watcher was built     *)
(* (line 127) with frame_buffer=None and is never run(); skip_count and    *)
(* save_frames are the script's configuration.  lastframe_time is the      *)
(* reading of line 87, taken at time 0, before the watcher is built.       *)
InitSync ==
    /\ InitBuffer
    /\ display_video = FALSE
    /\ InitWatcher
    /\ dpc = "loop"
    /\ reads = 0
    /\ exhausted = FALSE
    /\ skip_count \in 0 .. MaxSkip
    /\ skip_counter = 0
    /\ framecount = 0
    /\ lastframe_time = 0
    /\ save_frames \in BOOLEAN
    /\ tracker_calls = 0
    /\ detection_events = {}
    /\ keptAt = <<>>
    /\ PeerOff

(* The readings of the clock one loop iteration later: decoding a frame   *)
(* (and the sleep after a kept one) takes at least one tick.               *)
LaterReadings == (now + 1) .. (now + MaxStep)

(* A loop that runs the per-frame accounting before the skip test. *)
DriverIterationCountFirst ==
    /\ dpc = "loop"
    /\ reads < MaxReads
    /\ now' \in LaterReadings
    /\ \E ret \in BOOLEAN :
        /\ exhausted => ~ret
        /\ exhausted' = (exhausted \/ ~ret)
        /\ reads' = reads + 1
        /\ framecount' = IF ret THEN framecount + 1 ELSE framecount
        /\ ProcessFrame
        /\ IF skip_counter + 1 < skip_count
           THEN /\ skip_counter' = skip_counter + 1
                /\ UNCHANGED <<dpc, lastframe_time, tracker_calls, detection_events, keptAt>>
           ELSE /\ skip_counter' = 0
                /\ dpc' = IF ret THEN "loop" ELSE "done"
                /\ lastframe_time' = now'
                /\ tracker_calls' = tracker_calls + 1
                /\ keptAt' = Append(keptAt, reads + 1)
                /\ UNCHANGED detection_events
    /\ UNCHANGED <<bufVars, _frame_index, _thread, _running, display_video, _prev_timestamp>>
    /\ UNCHANGED <<threadVars, callerVars, skip_count, save_frames, peerVars>>
    /\ UNCHANGED <<lastDisp, failKind, heartbeat, cur, lastPass>>

(* A loop without the break of line 215. *)
DriverIterationNoBreak ==
    /\ dpc = "loop"
    /\ reads < MaxReads
    /\ now' \in LaterReadings
    /\ \E ret \in BOOLEAN :
        /\ exhausted => ~ret
        /\ exhausted' = (exhausted \/ ~ret)
        /\ reads' = reads + 1
        /\ IF skip_counter + 1 < skip_count
           THEN /\ skip_counter' = skip_counter + 1
                /\ UNCHANGED <<dpc, framecount, lastframe_time, tracker_calls,
                               detection_events, keptAt, fpsVars, calls, boundaryFps>>
           ELSE /\ skip_counter' = 0
                /\ IF ret
                   THEN /\ framecount' = framecount + 1
                        /\ lastframe_time' = now'
                        /\ ProcessFrame
                        /\ keptAt' = Append(keptAt, reads + 1)
                        /\ \E detectorRaises \in BOOLEAN :
                            IF ProcessFrameRaises(detectorRaises)
                            THEN /\ dpc' = "crashed"
                                 /\ UNCHANGED <<tracker_calls, detection_events>>
                            ELSE /\ tracker_calls' = tracker_calls + 1
                                 /\ \E hasEvents \in BOOLEAN :
                                      detection_events' =
                                          IF save_frames /\ hasEvents
                                          THEN detection_events \cup {framecount + 1}
                                          ELSE detection_events
                                 /\ \E quit \in BOOLEAN :
                                      dpc' = IF quit THEN "done" ELSE "loop"
                   ELSE /\ dpc' = "loop"
                        /\ UNCHANGED <<framecount, lastframe_time, tracker_calls,
                                       detection_events, keptAt, fpsVars, calls, boundaryFps>>
    /\ UNCHANGED <<bufVars, _frame_index, _thread, _running, display_video, _prev_timestamp>>
    /\ UNCHANGED <<threadVars, callerVars, skip_count, save_frames, peerVars>>
    /\ UNCHANGED <<lastDisp, failKind, heartbeat, cur, lastPass>>

(* One iteration of the loop, lines 162-215.  cap.read() returns a frame  *)
(* (ret) until the source is exhausted.  Lines 165-169: the skip counter   *)
(* is incremented and the iteration ends there while it is below           *)
(* skip_count; otherwise it is reset.  Lines 171-213, a frame was read:    *)
(* framecount, lastframe_time, process_frame (an exception of it is not    *)
(* caught and ends the script), the two tracker calls, the optional        *)
(* record of the events, imshow and the `q` key, the sleep.  Line 215, no  *)
(* frame: break.  The clock has advanced since the last kept frame, so the *)
(* division by td at line 184 is defined.                                  *)
DriverIteration ==
    /\ dpc = "loop"
    /\ reads < MaxReads
    /\ now' \in LaterReadings
    /\ \E ret \in BOOLEAN :
        /\ exhausted => ~ret
        /\ exhausted' = (exhausted \/ ~ret)
        /\ reads' = reads + 1
        /\ IF skip_counter + 1 < skip_count
           THEN /\ skip_counter' = skip_counter + 1
                /\ UNCHANGED <<dpc, framecount, lastframe_time, tracker_calls,
                               detection_events, keptAt, fpsVars, calls, boundaryFps>>
           ELSE /\ skip_counter' = 0
                /\ IF ret
                   THEN /\ framecount' = framecount + 1
                        /\ lastframe_time' = now'
                        /\ ProcessFrame
                        /\ keptAt' = Append(keptAt, reads + 1)
                        /\ \E detectorRaises \in BOOLEAN :
                            IF ProcessFrameRaises(detectorRaises)
                            THEN /\ dpc' = "crashed"
                                 /\ UNCHANGED <<tracker_calls, detection_events>>
                            ELSE /\ tracker_calls' = tracker_calls + 1
                                 /\ \E hasEvents \in BOOLEAN :
                                      detection_events' =
                                          IF save_frames /\ hasEvents
                                          THEN detection_events \cup {framecount + 1}
                                          ELSE detection_events
                                 /\ \E quit \in BOOLEAN :
                                      dpc' = IF quit THEN "done" ELSE "loop"
                   ELSE /\ dpc' = "done"
                        /\ UNCHANGED <<framecount, lastframe_time, tracker_calls,
                                       detection_events, keptAt, fpsVars, calls, boundaryFps>>
    /\ UNCHANGED <<bufVars, _frame_index, _thread, _running, display_video, _prev_timestamp>>
    /\ UNCHANGED <<threadVars, callerVars, skip_count, save_frames, peerVars>>
    /\ UNCHANGED <<lastDisp, failKind, heartbeat, cur, lastPass>>

NextSync == DriverIteration

SpecSync == InitSync /\ [][NextSync]_vars

(* ================== the per-frame contract called in a row ============= *)
(* A caller that calls process_frame again and again on one watcher, as   *)
(* both modes do; any time, or none, passes between two calls.             *)
InitFps ==
    /\ InitBuffer
    /\ display_video = FALSE
    /\ InitWatcher
    /\ DriverOff
    /\ PeerOff

FrameCall ==
    /\ calls < MaxCalls
    /\ now' \in now .. (now + MaxStep)
    /\ ProcessFrame
    /\ UNCHANGED <<bufVars, _frame_index, _thread, _running, display_video, _prev_timestamp>>
    /\ UNCHANGED <<threadVars, callerVars, driverVars, peerVars>>
    /\ UNCHANGED <<lastDisp, failKind, heartbeat, cur, lastPass>>

NextFps == FrameCall

SpecFps == InitFps /\ [][NextFps]_vars

(* ======================= asynchronous mode: claims ===================== *)

(* C1: once a call to stop() has returned (and until the caller's next    *)
(* call), the watcher's lifecycle thread dispatches no frame to            *)
(* process_frame, under every interleaving of producer, thread and caller. *)
C1_NoDispatchAfterStop ==
    [][lastCall = "stop_returned" => (calls' = calls /\ lastDisp' = lastDisp)]_vars

(* stop() has returned on a watcher that had dispatched frames, while     *)
(* frames it never dispatched wait behind the write cursor.                *)
C1_Witness ==
    /\ lastCall = "stop_returned"
    /\ calls > 0
    /\ _frame_index # buf_frame_index
    /\ frame_count > lastDisp

(* C2: stop() on a watcher that is already stopped (never started,        *)
(* stopped before, or ended by an error) returns: it does not hang and it  *)
(* does not raise.                                                         *)
C2_StopSafeWhenStopped ==
    /\ lastCall # "stop_raised"
    /\ (cpc = "joining" /\ NoLiveThread /\ _thread # 0) => ENABLED StopJoin

(* C3: a consumer that was synchronized and then, check after check,     *)
(* finds fewer than BufLen writes waiting dispatches every write made      *)
(* until it is synchronized again, each once, in write order.  In          *)
(* particular, W < BufLen writes between two checks and none during the    *)
(* pass are dispatched exactly so: none for W = 0, the one frame for       *)
(* W = 1, also across the wrap from the last slot to slot 0.               *)
C3_FewerThanCapacity ==
    /\ (lastPass.valid /\ lastPass.ok)
          => lastPass.log = [i \in 1 .. lastPass.total |-> lastPass.base + i]
    /\ (lastPass.valid /\ lastPass.clean /\ lastPass.burst < BufLen)
          => (lastPass.ok /\ lastPass.total = lastPass.burst)

(* A closed pass of two writes, the first into the last slot and the      *)
(* second, across the wrap, into slot 0.                                   *)
C3_Witness ==
    /\ lastPass.valid
    /\ lastPass.clean
    /\ lastPass.burst = 2
    /\ lastPass.base > 0
    /\ (lastPass.base + 1) % BufLen = 0
    /\ lastPass.log = <<lastPass.base + 1, lastPass.base + 2>>
    /\ _frame_index = 0

(* C4 as stated: after W > BufLen writes between two checks the pass      *)
(* skips only the W - BufLen overwritten writes, so it dispatches the      *)
(* BufLen newest ones.                                                     *)
C4_SkipsOnlyOverwritten ==
    (lastPass.valid /\ lastPass.clean /\ lastPass.burst > BufLen)
        => lastPass.log = [i \in 1 .. BufLen |->
                              lastPass.base + lastPass.burst - BufLen + i]

(* C4 (amended): after W > BufLen writes between two checks, a pass with  *)
(* no write during it dispatches only the W mod BufLen newest writes, in   *)
(* write order, and then finds the local cursor equal to the write cursor: *)
(* the newest frame is the last one it dispatched.                         *)
C4_LappedPassKeepsRemainder ==
    (lastPass.valid /\ lastPass.clean /\ lastPass.burst > BufLen)
        => LET W == lastPass.burst
               k == W % BufLen
           IN /\ lastPass.log = [i \in 1 .. k |-> lastPass.base + W - k + i]
              /\ (cur.phase = "synced" /\ cur.base = frame_count)
                    => /\ _frame_index = buf_frame_index
                       /\ (k > 0 => lastDisp = frame_count)
              /\ \A t \in Threads : failKind[t] = "none"

(* A closed pass after more than a lap of writes that dispatched a frame. *)
C4_Witness ==
    /\ lastPass.valid
    /\ lastPass.clean
    /\ lastPass.burst > BufLen
    /\ Len(lastPass.log) > 0
    /\ _frame_index = buf_frame_index

(* C5: the frames one lifecycle thread at a time dispatches are in        *)
(* strictly increasing write order: none twice, none after a later one.    *)
C5_DispatchOrder ==
    [][calls' # calls => lastDisp' > lastDisp]_vars

(* Three dispatches, with a skipped write among them. *)
C5_Witness ==
    /\ calls >= 3
    /\ lastDisp > calls

(* C6: after process_frame raised in asynchronous mode the thread has     *)
(* left the loop, and no frame is dispatched until the caller starts the   *)
(* watcher again.                                                          *)
C6_FailStop ==
    [][\A t \in Threads : failKind[t] = "process"
            => (~Alive(t) /\ calls' = calls /\ lastDisp' = lastDisp)]_vars

(* The loop has ended on an error and the producer has written since.     *)
C6_Witness ==
    \E t \in Threads :
        /\ failKind[t] = "process"
        /\ pc[t] = "failed"
        /\ frame_count > lastDisp + 1
        /\ _frame_index # buf_frame_index
        /\ _running

(* C7: with display configured, an error raised by _display_video does    *)
(* not end the catch-up loop.                                              *)
C7_DisplayFailureIsolated ==
    \A t \in Threads : failKind[t] = "display" => Alive(t)

(* ======================= synchronous mode: claims ====================== *)

(* C8 as stated: with skip_count = S the loop keeps exactly one of every  *)
(* S + 1 frames it reads: the i-th kept frame is read number i * (S + 1).  *)
C8_CadenceSkipPlusOne ==
    /\ \A i \in 1 .. Len(keptAt) : keptAt[i] = i * (skip_count + 1)
    /\ (dpc = "loop" /\ ~exhausted) => Len(keptAt) = reads \div (skip_count + 1)

(* C9: an iteration that discards its frame changes the skip counter and  *)
(* nothing of the FPS fields, the kept-frame count, the last-frame time,   *)
(* the tracker or the recorded events.                                     *)
C9_DiscardTouchesOnlySkipCounter ==
    [][(dpc = "loop" /\ skip_counter + 1 < skip_count)
          => /\ skip_counter' = skip_counter + 1
             /\ UNCHANGED <<_fps_counter, _fps_time, _fps, calls, framecount,
                            lastframe_time, tracker_calls, detection_events, keptAt>>]_vars

(* A frame has just been discarded after frames were kept and recorded.   *)
C9_Witness ==
    /\ skip_counter >= 1
    /\ framecount >= 1
    /\ _fps_counter >= 1
    /\ tracker_calls >= 1
    /\ detection_events # {}
    /\ reads > keptAt[Len(keptAt)]

(* C10: the stored FPS value changes only on a call of process_frame      *)
(* whose ordinal is a multiple of FPS_FRAMES; on every other call the      *)
(* value the call reports is the one computed at the last window boundary, *)
(* and it is not reset in between.                                         *)
C10_FpsChangesOnlyAtWindowEnd ==
    [][calls' = calls + 1
          => /\ (calls' % FPS_FRAMES # 0 => _fps' = _fps)
             /\ _fps' = boundaryFps'
             /\ (_fps # <<0, 1>> => _fps' # <<0, 1>>)]_vars

(* In the third window, the value of the second window is reported and    *)
(* differs from the value of the first.                                    *)
C10_Witness ==
    /\ calls = 2 * FPS_FRAMES + 1
    /\ _fps_counter = 1
    /\ _fps = <<FPS_FRAMES, now - 1 - FPS_FRAMES>>
    /\ _fps_time = now - 1

(* ================= asynchronous mode: further claims =================== *)

(* The heartbeat interval has passed, on the latest reading of the clock,  *)
(* since thread t last logged a heartbeat (or entered the loop).           *)
HeartbeatDue(t) == (now - last_log[t]) * TickSecs > HeartbeatSecs

(* C12: while the loop runs, a heartbeat carrying the buffer's frame      *)
(* count follows each elapsed heartbeat interval, also while the producer  *)
(* keeps the consumer behind the write cursor: the loop does not go on to  *)
(* dispatch a further frame with a heartbeat due.                          *)
C12_HeartbeatWhileBehind ==
    \A t \in Threads : pc[t] = "process" => ~HeartbeatDue(t)

(* The public property FrameWatcher.frame_index: the value of             *)
(* _frame_index.                                                           *)
frame_index == _frame_index

(* C13: frame_index is the sequential count of the frames the watcher has *)
(* processed: one more for each frame dispatched to process_frame, and     *)
(* only then.                                                              *)
C13_FrameIndexCountsProcessed ==
    frame_index = calls

(* C14 as stated: every change of the local cursor is an advance by 1    *)
(* modulo BufLen, the cursor stays in 0 .. BufLen-1, and the advance        *)
(* happens in a state where the local cursor differs from the write cursor. *)
C14_AdvanceOnlyWhileDifferent ==
    [][_frame_index' # _frame_index
          => /\ _frame_index' = (_frame_index + 1) % BufLen
             /\ _frame_index' \in Slots
             /\ _frame_index # buf_frame_index]_vars

(* C14 (amended): every change of the local cursor is an advance by 1     *)
(* modulo BufLen by the lifecycle thread, the cursor stays in              *)
(* 0 .. BufLen-1, and the thread comes to the advance only through a check *)
(* that found the local cursor different from the write cursor (and then   *)
(* the running flag set); the producer may write in between.               *)
C14_AdvanceOnlyAfterCheck ==
    [][/\ _frame_index \in Slots
       /\ _frame_index' # _frame_index
             => /\ _frame_index' = (_frame_index + 1) % BufLen
                /\ _frame_index' \in Slots
                /\ \E t \in Threads : pc[t] = "advance_store" /\ pc'[t] = "read"
       /\ \A t \in Threads :
             /\ (pc'[t] = "advance" /\ pc[t] # "advance")
                   => (pc[t] = "inner_run" /\ _running)
             /\ (pc'[t] = "inner_run" /\ pc[t] # "inner_run")
                   => (pc[t] = "inner_cmp" /\ _frame_index # buf_frame_index)]_vars

(* The thread is about to advance, past its check, in a state where the   *)
(* producer has since brought the write cursor round to the local cursor.  *)
C14_Witness ==
    \E t \in Threads :
        /\ pc[t] = "advance"
        /\ _frame_index = buf_frame_index
        /\ frame_count > BufLen
        /\ calls > 0

(* The positions of a thread inside the per-frame call. *)
InCall == TrackPcs \cup {"call"}

(* C15: stop() called on a watcher that was started eventually returns,  *)
(* whatever the producer does: with the flag cleared the inner loop does   *)
(* not advance again even though the cursors differ, and a per-frame call  *)
(* that is about to be made is made, never abandoned.                      *)
C15_StopReturns ==
    /\ [][\A t \in Threads :
            /\ (~_running /\ pc[t] = "inner_run") => pc'[t] # "advance"
            /\ (pc[t] = "process" /\ pc'[t] # "process") => pc'[t] = "fps_store"
            /\ (pc[t] \in InCall /\ pc'[t] \notin InCall) => calls' = calls + 1]_vars
    /\ (cpc = "joining" /\ _thread # 0) ~> (lastCall = "stop_returned")

(* stop() has returned, the thread left the loop by the flag, and a whole *)
(* buffer of undispatched writes is left behind the write cursor.          *)
C15_Witness ==
    /\ lastCall = "stop_returned"
    /\ pc[_thread] = "done"
    /\ calls > 0
    /\ frame_count - lastDisp >= BufLen
    /\ _frame_index # buf_frame_index

(* C16: the loop that has advanced onto a never written slot skips it:   *)
(* it goes back to the check of the cursors without a per-frame call and   *)
(* without an error, and the previous processed timestamp and the FPS      *)
(* fields are as before.                                                   *)
C16_EmptySlotSkipped ==
    [][\A t \in Threads :
          (pc[t] = "read_slot" /\ buffer[_frame_index] = NoFrame /\ pc'[t] # "read_slot")
              => /\ pc'[t] = "inner"
                 /\ failKind'[t] = "none"
                 /\ calls' = calls
                 /\ lastDisp' = lastDisp
                 /\ UNCHANGED <<_prev_timestamp, _fps_counter, _fps_time, _fps>>
                 /\ UNCHANGED <<_frame_index, _running>>]_vars

(* The loop went over the empty slots 1 and 2 of a buffer never written   *)
(* before, and has afterwards dispatched the first frame, from slot 0.     *)
C16_Witness ==
    /\ frame_count = 1
    /\ buffer[1] = NoFrame
    /\ _frame_index = 0
    /\ lastDisp = 1
    /\ calls = 1
    /\ _prev_timestamp = 1
    /\ \E t \in Threads : Alive(t) /\ failKind[t] = "none"

(* The public property FrameWatcher.running: the value of _running.      *)
running == _running

(* C19: running is true only while the lifecycle thread is alive: once an *)
(* error of the per-frame call has ended the loop, running reads false.    *)
C19_RunningOnlyWhileAlive ==
    /\ running => \E t \in Threads : Alive(t)
    /\ \A t \in Threads : (pc[t] = "failed" /\ _thread = t) => ~running

(* C20: when exactly BufLen writes, a whole lap, fall between a check    *)
(* that found the consumer synchronized and its next check, that check     *)
(* finds the write cursor equal to the local cursor again: the consumer    *)
(* goes to sleep as synchronized and dispatches none of those writes.      *)
C20_WholeLapLooksSynchronized ==
    [][\A t \in Threads :
          (/\ pc[t] = "inner_cmp"
           /\ cur.phase = "synced"
           /\ frame_count - cur.base = BufLen
           /\ pc'[t] # pc[t])
              => /\ _frame_index = buf_frame_index
                 /\ pc'[t] = "sleep"
                 /\ calls' = calls
                 /\ lastDisp' = lastDisp
                 /\ _frame_index' = _frame_index
                 /\ lastPass'.valid
                 /\ lastPass'.burst = BufLen
                 /\ lastPass'.log = <<>>
                 /\ cur'.phase = "synced"
                 /\ cur'.base = frame_count]_vars

(* A consumer that had dispatched every write has just closed a check     *)
(* over a whole lap of new writes without dispatching one of them.         *)
C20_Witness ==
    /\ lastPass.valid
    /\ lastPass.burst = BufLen
    /\ lastPass.log = <<>>
    /\ calls > 0
    /\ lastDisp = lastPass.base
    /\ frame_count = lastPass.base + BufLen
    /\ _frame_index = buf_frame_index
    /\ \E t \in Threads : pc[t] = "sleep"

(* ================== two watchers on one buffer: claims ================= *)

(* C18: a watcher neither blocks nor affects the producer or another      *)
(* watcher.  Seen through the buffer and one watcher, every step of the    *)
(* system of two watchers is a step of the system with that watcher alone  *)
(* (a write, or a step of that watcher) or changes nothing there: no       *)
(* watcher step changes a slot, the write cursor, the frame counter or the *)
(* other watcher's cursor, and each watcher dispatches what it would       *)
(* dispatch alone against the same writes.  The producer can write in      *)
(* every state, however far a watcher lags (up to the bound on writes).    *)
C18_WatchersIndependent ==
    /\ [][Write \/ Run \/ \E t \in Threads : WatchStep(t)]_<<bufVars, now, watcherVars,
                                                            threadVars, callerVars, obsVars>>
    /\ [][Write \/ PeerStep]_<<bufVars, peerVars>>
    /\ [](frame_count < MaxWrites => ENABLED Write)

(* Both watchers have dispatched frames, stand at different slots, and    *)
(* the first lags a whole buffer behind a producer that can still write.   *)
C18_Witness ==
    /\ calls > 0
    /\ peer_disp > 0
    /\ peer_disp # lastDisp
    /\ peer_frame_index # _frame_index
    /\ frame_count - lastDisp >= BufLen
    /\ frame_count < MaxWrites
    /\ ENABLED Write

(* ================= synchronous mode: further claims ==================== *)

(* C17: an iteration whose read returned no frame makes no per-frame      *)
(* call, no tracker call and no save, and leaves every count as it was; it *)
(* ends the loop, or it is a discarding iteration that brings the skip     *)
(* counter one nearer to skip_count: the loop ends, without an error,      *)
(* within skip_count - 1 reads after the first one that returned nothing.  *)
C17_ExhaustionEndsLoop ==
    [][(dpc = "loop" /\ reads' = reads + 1 /\ exhausted')
          => /\ UNCHANGED <<calls, _fps_counter, _fps_time, _fps, framecount,
                            lastframe_time, tracker_calls, detection_events, keptAt>>
             /\ dpc' \in {"loop", "done"}
             /\ dpc' = "loop" => /\ skip_counter' = skip_counter + 1
                                /\ skip_counter' < skip_count]_vars

(* The source ran dry after frames were kept; two reads have returned     *)
(* nothing in discarding iterations and the loop is still to end.          *)
C17_Witness ==
    /\ dpc = "loop"
    /\ exhausted
    /\ skip_count = 3
    /\ skip_counter = 2
    /\ keptAt = <<3>>
    /\ reads = 5
    /\ calls = 1
    /\ tracker_calls = 1

(* ================== run() and stop() in any order: claims ============== *)

(* C11: for any sequence of run() and stop() calls on one watcher, at     *)
(* most one lifecycle thread of the watcher is alive: never two threads    *)
(* that both execute the catch-up loop on the same local cursor.           *)
C11_OneLifecycleThread ==
    \A t, u \in Threads : (Alive(t) /\ Alive(u)) => t = u

====
